---- MODULE Spec2Model ----
(***************************************************************************)
(* Model of ldsc/jackknife.py: the LD Score regression weight functions,   *)
(* the regression adapter ldscore_reg, the pipeline functions h2g and      *)
(* gencor, the block jackknife LstsqJackknife and the RatioJackknife.      *)
(*                                                                         *)
(* Numbers.  Input data are integers.  Every quotient the code forms is    *)
(* kept as an exact fraction <<n, d>> in lowest terms with d >= 0; d = 0   *)
(* stands for the non-finite values numpy produces on division by zero     *)
(* (<<1,0>> = inf, <<-1,0>> = -inf, <<0,0>> = nan).  Floating-point        *)
(* rounding is not modelled.                                               *)
(*                                                                         *)
(* Arrays.  A numpy array is a record [ndim, v]: ndim = 0 with v a scalar, *)
(* ndim = 1 with v a sequence of scalars, ndim = 2 with v a sequence of    *)
(* rows.                                                                   *)
(***************************************************************************)
EXTENDS Integers, Sequences, FiniteSets, TLC

\* Largest number of data rows drawn for a call.
MaxN == 5

\* Largest number of SNPs (rows) drawn for an ldscore_reg call.
MaxM == 4

\* Largest number of blocks drawn for a RatioJackknife call.
MaxBlocks == 3

\* Largest number of SNPs drawn for a weight-function call.
MaxLen == 2

\* Largest number of SNPs drawn for a call of h2g, gencov or gencor.
MaxSnps == 3

-----------------------------------------------------------------------------
(* Exact arithmetic *)

Abs(a) == IF a < 0 THEN -a ELSE a

Sgn(a) == IF a < 0 THEN -1 ELSE IF a = 0 THEN 0 ELSE 1

RECURSIVE GCD(_, _)
GCD(a, b) == IF b = 0 THEN a ELSE GCD(b, a % b)

Norm(n, d) ==
    IF d = 0 THEN <<Sgn(n), 0>>
    ELSE LET g == GCD(Abs(n), Abs(d))
         IN  <<(Sgn(d) * n) \div g, Abs(d) \div g>>

R(k) == <<k, 1>>

RAdd(a, b) ==
    IF a[2] = 0 /\ b[2] = 0
    THEN (IF a = b THEN a ELSE <<0, 0>>)
    ELSE Norm(a[1] * b[2] + b[1] * a[2], a[2] * b[2])

RNeg(a) == <<-a[1], a[2]>>

RSub(a, b) == RAdd(a, RNeg(b))

RMul(a, b) == Norm(a[1] * b[1], a[2] * b[2])

\* numpy true division: x/0 is inf, -inf or nan, never an exception
RDiv(a, b) ==
    LET s == IF b[1] < 0 THEN -1 ELSE 1
    IN  Norm(a[1] * b[2] * s, a[2] * Abs(b[1]))

RECURSIVE RSum(_)
RSum(s) == IF s = <<>> THEN R(0) ELSE RAdd(Head(s), RSum(Tail(s)))

RECURSIVE ISum(_)
ISum(s) == IF s = <<>> THEN 0 ELSE Head(s) + ISum(Tail(s))

-----------------------------------------------------------------------------
(* Arrays and integer matrices *)

Arr0(a) == [ndim |-> 0, v |-> a]

Arr1(s) == [ndim |-> 1, v |-> s]

Arr2(rows) == [ndim |-> 2, v |-> rows]

\* the value None passed for an optional array argument
None == [ndim |-> -1, v |-> <<>>]

\* ndarray.shape
Shape(a) ==
    IF a.ndim = 0 THEN <<>>
    ELSE IF a.ndim = 1 THEN <<Len(a.v)>>
    ELSE <<Len(a.v), IF a.v = <<>> THEN 0 ELSE Len(a.v[1])>>

\* np.atleast_2d(a).T for a 1-D array a: a column with one row per entry
AsColumn(a) == Arr2([i \in 1..Len(a.v) |-> <<a.v[i]>>])

\* rows s+1 .. e of a (the slice a[s:e, ...], 0-based, e exclusive)
Slice(rows, s, e) == [i \in 1..(e - s) |-> rows[s + i]]

\* np.dot(a.T, b) for row lists a (n x p) and b (n x q)
DotT(a, b, p, q) ==
    [i \in 1..p |-> [k \in 1..q |->
        ISum([r \in 1..Len(a) |-> a[r][i] * b[r][k]])]]

MatAdd(A, B) == [i \in 1..Len(A) |-> [k \in 1..Len(A[i]) |-> A[i][k] + B[i][k]]]

MatSub(A, B) == [i \in 1..Len(A) |-> [k \in 1..Len(A[i]) |-> A[i][k] - B[i][k]]]

\* np.sum(blocks, axis=0) over a non-empty list of equally shaped matrices
RECURSIVE MatSum(_)
MatSum(blocks) ==
    IF Len(blocks) = 1 THEN blocks[1]
    ELSE MatAdd(Head(blocks), MatSum(Tail(blocks)))

\* determinant of a 1 x 1 or 2 x 2 matrix
Det(A) ==
    IF Len(A) = 1 THEN A[1][1]
    ELSE A[1][1] * A[2][2] - A[1][2] * A[2][1]

\* faulty variant: the inverse never reports a singular matrix
IsSingular_Never(A) == FALSE

\* np.linalg.inv raises LinAlgError on a singular matrix
IsSingular(A) == Det(A) = 0

\* np.linalg.inv(A) for an invertible 1 x 1 or 2 x 2 matrix: adjugate / det
Inv(A) ==
    LET d == Det(A)
    IN  IF Len(A) = 1 THEN << <<Norm(1, d)>> >>
        ELSE << <<Norm(A[2][2], d), Norm(-A[1][2], d)>>,
                <<Norm(-A[2][1], d), Norm(A[1][1], d)>> >>

\* np.dot(Ainv, b).T for a rational p x p matrix and an integer p x 1 column:
\* the single row of the result
DotInvT(Ainv, b) ==
    [i \in 1..Len(Ainv) |->
        RSum([k \in 1..Len(Ainv) |-> RMul(Ainv[i][k], R(b[k][1]))])]

-----------------------------------------------------------------------------
(* State *)

VARIABLES
    fn,              \* the function called from outside ("none" before a call)
    pc,              \* position of the running call; "done" / "raised" at its end
    err,             \* the exception that ended the call ("none" if none)
    args,            \* the arguments of the outer call
    x, y,            \* LstsqJackknife.__init__: the arrays x and y
    block_size,      \* self.block_size (the block_size parameter before line 366)
    N,               \* self.N
    output_dim,      \* self.output_dim
    num_blocks,      \* self.num_blocks
    s,               \* __compute_block_vals__: block start index
    xty_block_vals,  \* __compute_block_vals__: list of per-block x'y
    xtx_block_vals,  \* __compute_block_vals__: list of per-block x'x
    est,             \* self.est
    j,               \* __block_vals_to_pseudovals__: loop index
    pseudovalues,    \* pseudovalues matrix (rows of fractions)
    delete_values,   \* delete_values matrix (rows of fractions)
    jknife_est,      \* self.jknife_est
    jknife_var,      \* self.jknife_var
    ret,             \* value returned by a weight function; agg_h2 in h2g
    numer_delete_vals,  \* RatioJackknife: self.numer_delete_vals
    denom_delete_vals   \* RatioJackknife: self.denom_delete_vals

vars == <<fn, pc, err, args, x, y, block_size, N, output_dim, num_blocks, s,
          xty_block_vals, xtx_block_vals, est, j, pseudovalues, delete_values,
          jknife_est, jknife_var, ret, numer_delete_vals, denom_delete_vals>>

jkVars == <<x, y, block_size, N, output_dim, num_blocks, s, xty_block_vals,
            xtx_block_vals, est, j, pseudovalues, delete_values, jknife_est,
            jknife_var>>

Init ==
    /\ fn = "none" /\ pc = "idle" /\ err = "none" /\ args = <<>>
    /\ x = <<>> /\ y = <<>> /\ block_size = 0 /\ N = 0 /\ output_dim = 0
    /\ num_blocks = 0 /\ s = 0 /\ xty_block_vals = <<>> /\ xtx_block_vals = <<>>
    /\ est = <<>> /\ j = 0 /\ pseudovalues = <<>> /\ delete_values = <<>>
    /\ jknife_est = <<>> /\ jknife_var = <<>> /\ ret = <<>>
    /\ numer_delete_vals = <<>> /\ denom_delete_vals = <<>>

-----------------------------------------------------------------------------
(* Inputs drawn for the calls *)

XVals == {0, 1}

YVals == {1, 2}

Vectors(n, S) == [1..n -> S]

\* a length-n vector either as a 1-D array or as an n x 1 matrix
AsArrays(vec) == {Arr1(vec), AsColumn(Arr1(vec))}

BlockSizes == 1..MaxN

\* the documented end-to-end example: six rows, x a column of ones, y all 2
ExampleX == AsColumn(Arr1([i \in 1..6 |-> 1]))

ExampleY == Arr1([i \in 1..6 |-> 2])

-----------------------------------------------------------------------------
(* LstsqJackknife *)

\* x = LstsqJackknife(x, y, block_size) called directly
Call_LstsqJackknife ==
    /\ pc = "idle"
    /\ \/ \E n \in 1..MaxN, m \in 1..MaxN :
            /\ m \in {n, n + 1}
            /\ \E xv \in Vectors(n, XVals), yv \in Vectors(m, YVals) :
               \E xa \in AsArrays(xv), ya \in AsArrays(yv) :
                 /\ xa.ndim = ya.ndim
                 /\ x' = xa /\ y' = ya
          /\ \E bs \in BlockSizes : block_size' = bs
       \/ x' = ExampleX /\ y' = ExampleY /\ block_size' = 2
    /\ fn' = "LstsqJackknife"
    /\ args' = [x |-> x', y |-> y', block_size |-> block_size']
    /\ pc' = "init"
    /\ UNCHANGED <<err, N, output_dim, num_blocks, s, xty_block_vals,
                   xtx_block_vals, est, j, pseudovalues, delete_values,
                   jknife_est, jknife_var, ret, numer_delete_vals, denom_delete_vals>>

\* line 363: if block_size > self.N / 2: raise
BlockSizeRejected(bs, n) == 2 * bs > n

\* faulty variant: the quotient is rounded down (integer division)
NumBlocks_Floor(n, bs) == n \div bs

\* line 367: int(np.ceil(self.N / self.block_size))
NumBlocks(n, bs) == (n + bs - 1) \div bs

\* __init__, lines 353-369: promote 1-D inputs, validate, set the sizes
LstsqJackknife_init ==
    /\ pc = "init"
    /\ LET x2 == IF x.ndim <= 1 THEN AsColumn(x) ELSE x
           y2 == IF y.ndim <= 1 THEN AsColumn(y) ELSE y
           n  == Shape(y2)[1]
           nb == NumBlocks(n, block_size)
       IN  /\ x' = x2 /\ y' = y2
           /\ N' = n
           /\ IF n # Shape(x2)[1]
              THEN /\ pc' = "raised" /\ err' = "ValueError_rows"
                   /\ UNCHANGED <<output_dim, num_blocks>>
              ELSE /\ output_dim' = Shape(x2)[2]
                   /\ IF BlockSizeRejected(block_size, n)
                      THEN /\ pc' = "raised" /\ err' = "ValueError_block_size"
                           /\ UNCHANGED num_blocks
                      ELSE /\ num_blocks' = nb
                           /\ IF nb > n
                              THEN pc' = "raised" /\ err' = "ValueError_num_blocks"
                              ELSE pc' = "compute_block_vals" /\ err' = err
    /\ UNCHANGED <<fn, args, block_size, s, xty_block_vals, xtx_block_vals, est,
                   j, pseudovalues, delete_values, jknife_est, jknife_var, ret, numer_delete_vals, denom_delete_vals>>

\* faulty variant: the block end is one row short
BlockEnd_OneShort(n, start, bs) == IF start + bs < n THEN start + bs - 1 ELSE n

\* line 387: e = min(self.N, s+block_size)
BlockEnd(n, start, bs) == IF start + bs < n THEN start + bs ELSE n

\* __compute_block_vals__, lines 385-391: one pass of the loop over block starts
ComputeBlockVals_step ==
    /\ pc = "compute_block_vals"
    /\ s < N
    /\ LET e   == BlockEnd(N, s, block_size)
           xty == DotT(Slice(x.v, s, e), Slice(y.v, s, e), output_dim, 1)
           xtx == DotT(Slice(x.v, s, e), Slice(x.v, s, e), output_dim, output_dim)
       IN  /\ xty_block_vals' = Append(xty_block_vals, xty)
           /\ xtx_block_vals' = Append(xtx_block_vals, xtx)
    /\ s' = s + block_size
    /\ pc' = IF s' < N THEN "compute_block_vals" ELSE "block_vals_to_est"
    /\ UNCHANGED <<fn, err, args, x, y, block_size, N, output_dim, num_blocks,
                   est, j, pseudovalues, delete_values, jknife_est, jknife_var, ret, numer_delete_vals, denom_delete_vals>>

\* __block_vals_to_est__, lines 412-417
BlockValsToEst ==
    /\ pc = "block_vals_to_est"
    /\ LET xty == MatSum(xty_block_vals)
           xtx == MatSum(xtx_block_vals)
       IN  IF IsSingular(xtx)
           THEN /\ pc' = "raised" /\ err' = "LinAlgError"
                /\ UNCHANGED est
           ELSE /\ est' = DotInvT(Inv(xtx), xty)
                /\ pc' = "block_vals_to_pseudovals" /\ err' = err
    /\ UNCHANGED <<fn, args, x, y, block_size, N, output_dim, num_blocks, s,
                   xty_block_vals, xtx_block_vals, j, pseudovalues,
                   delete_values, jknife_est, jknife_var, ret, numer_delete_vals, denom_delete_vals>>

\* np.zeros((rows, cols))
Zeros(rows, cols) == [r \in 1..rows |-> [c \in 1..cols |-> R(0)]]

\* faulty variant: the block's x'y is not taken out of the total
DeleteXty_NotDeleted(xty_blocks, jj) == MatSum(xty_blocks)

\* line 404-405: the x'y and x'x of the data with block jj (0-based) left out
DeleteXty(xty_blocks, jj) == MatSub(MatSum(xty_blocks), xty_blocks[jj + 1])

DeleteXtx(xtx_blocks, jj) == MatSub(MatSum(xtx_blocks), xtx_blocks[jj + 1])

\* faulty variant: the delete-value is weighted by num_blocks instead of num_blocks-1
Pseudovalue_WrongFactor(nb, e, dv) ==
    [c \in 1..Len(e) |-> RSub(RMul(R(nb), e[c]), RMul(R(nb), dv[c]))]

\* line 407: self.num_blocks*est - (self.num_blocks-1)*delete_value_j
Pseudovalue(nb, e, dv) ==
    [c \in 1..Len(e) |-> RSub(RMul(R(nb), e[c]), RMul(R(nb - 1), dv[c]))]

\* __block_vals_to_pseudovals__, lines 397-408: the allocation (before the
\* first pass) and one pass of the loop over blocks
BlockValsToPseudovals_step ==
    /\ pc = "block_vals_to_pseudovals"
    /\ j < num_blocks
    /\ LET pv0 == IF j = 0 THEN Zeros(num_blocks, output_dim) ELSE pseudovalues
           dv0 == IF j = 0 THEN Zeros(num_blocks, output_dim) ELSE delete_values
           delete_xty_j == DeleteXty(xty_block_vals, j)
           delete_xtx_j == DeleteXtx(xtx_block_vals, j)
       IN  IF IsSingular(delete_xtx_j)
           THEN /\ pc' = "raised" /\ err' = "LinAlgError"
                /\ pseudovalues' = pv0 /\ delete_values' = dv0
                /\ j' = j
           ELSE LET delete_value_j == DotInvT(Inv(delete_xtx_j), delete_xty_j)
                IN  /\ pseudovalues' =
                          [pv0 EXCEPT ![j + 1] = Pseudovalue(num_blocks, est, delete_value_j)]
                    /\ delete_values' = [dv0 EXCEPT ![j + 1] = delete_value_j]
                    /\ j' = j + 1
                    /\ pc' = IF j' < num_blocks THEN "block_vals_to_pseudovals"
                                                ELSE "jknife"
                    /\ err' = err
    /\ UNCHANGED <<fn, args, x, y, block_size, N, output_dim, num_blocks, s,
                   xty_block_vals, xtx_block_vals, est, jknife_est, jknife_var, ret, numer_delete_vals, denom_delete_vals>>

\* column c of a matrix of fractions, as a sequence
Column(m, c) == [r \in 1..Len(m) |-> m[r][c]]

\* np.mean(pseudovalues, axis=0)
Mean0(m, cols) == [c \in 1..cols |-> RDiv(RSum(Column(m, c)), R(Len(m)))]

\* np.var(pseudovalues, axis=0): mean squared deviation from the column mean
Var0(m, cols) ==
    [c \in 1..cols |->
        LET mu == Mean0(m, cols)[c]
            sq == [r \in 1..Len(m) |-> RMul(RSub(m[r][c], mu), RSub(m[r][c], mu))]
        IN  RDiv(RSum(sq), R(Len(m)))]

\* __jknife__, lines 377-378 (jknife_se and jknife_cov are not modelled)
JknifeEst(pv, nb, cols) == Mean0(pv, cols)

JknifeVar(pv, nb, cols) == [c \in 1..cols |-> RDiv(Var0(pv, cols)[c], R(nb - 1))]

\* __init__, line 374, and the return of the constructed object
Jknife ==
    /\ pc = "jknife"
    /\ jknife_est' = JknifeEst(pseudovalues, num_blocks, output_dim)
    /\ jknife_var' = JknifeVar(pseudovalues, num_blocks, output_dim)
    /\ pc' = "done"
    /\ UNCHANGED <<fn, err, args, x, y, block_size, N, output_dim, num_blocks, s,
                   xty_block_vals, xtx_block_vals, est, j, pseudovalues,
                   delete_values, ret, numer_delete_vals, denom_delete_vals>>

-----------------------------------------------------------------------------
(* ldscore_reg *)

LdVals == {0, 1}

ChisqVals == {0, 1}

\* np.sqrt on the weights drawn here, which are perfect squares
ISqrt(w) == CHOOSE r \in 0..w : r * r = w

\* weight vectors drawn for a call on n rows: constant 4, or 4 for the first
\* row and 1 for the rest
WeightChoices(n) ==
    {None, Arr1([i \in 1..n |-> 4]), Arr1([i \in 1..n |-> IF i = 1 THEN 4 ELSE 1])}

\* response arrays drawn for a call on n rows: 1-D, n x 1, n x 2 and 0-dimensional
ResponseChoices(yv) ==
    {Arr1(yv), AsColumn(Arr1(yv)),
     Arr2([i \in 1..Len(yv) |-> <<yv[i], yv[i]>>]), Arr0(yv[1])}

\* line 212: len(y.shape) > 1 or len(y.shape) == 0
ResponseRejected(ya) == Len(Shape(ya)) > 1 \/ Len(Shape(ya)) = 0

\* lines 219-227: the weighted design matrix and response
DesignX(ld2, sw) == Arr2([i \in 1..Len(ld2.v) |-> <<ld2.v[i][1] * sw[i], sw[i]>>])

DesignY(y2, sw) == Arr2([i \in 1..Len(y2.v) |-> <<y2.v[i][1] * sw[i]>>])

\* ldscore_reg(y, ldScores, weights, block_size), lines 210-228, up to the
\* entry of the LstsqJackknife constructor
ldscore_reg ==
    /\ pc = "idle"
    /\ \E n \in 1..MaxM :
       \E lv \in Vectors(n, LdVals), yv \in Vectors(n, ChisqVals),
          w \in WeightChoices(n), bs \in 1..MaxM :
       \E ldScores \in AsArrays(lv), ya \in ResponseChoices(yv) :
         /\ args' = [y |-> ya, ldScores |-> ldScores, weights |-> w, block_size |-> bs]
         /\ LET ld2 == IF Len(Shape(ldScores)) <= 1 THEN AsColumn(ldScores) ELSE ldScores
            IN  IF ResponseRejected(ya)
                THEN /\ pc' = "raised" /\ err' = "ValueError_y_shape"
                     /\ UNCHANGED <<x, y, block_size>>
                ELSE LET y2 == AsColumn(ya)
                         num_snps == Shape(y2)[1]
                         weights == IF w = None THEN [i \in 1..num_snps |-> 1] ELSE w.v
                         sqrtWeights == [i \in 1..Len(weights) |-> ISqrt(weights[i])]
                     IN  /\ x' = DesignX(ld2, sqrtWeights)
                         /\ y' = DesignY(y2, sqrtWeights)
                         /\ block_size' = bs
                         /\ pc' = "init" /\ err' = err
    /\ fn' = "ldscore_reg"
    /\ UNCHANGED <<N, output_dim, num_blocks, s, xty_block_vals, xtx_block_vals,
                   est, j, pseudovalues, delete_values, jknife_est, jknife_var, ret, numer_delete_vals, denom_delete_vals>>

NextJk ==
    \/ Call_LstsqJackknife
    \/ LstsqJackknife_init
    \/ ComputeBlockVals_step
    \/ BlockValsToEst
    \/ BlockValsToPseudovals_step
    \/ Jknife

\* the least-squares jackknife, called directly or through ldscore_reg
Next == NextJk \/ ldscore_reg

Spec == Init /\ [][Next]_vars

-----------------------------------------------------------------------------
(* Weight functions *)

\* np.fmax(ldScores, 1), one entry
Fmax1(l) == IF l > 1 THEN l ELSE 1

\* h2_weights, lines 31-34; hsq is a fraction, the other arguments integers
H2Weights(ldScores, Nv, M, hsq) ==
    [i \in 1..Len(ldScores) |->
        LET l == R(Fmax1(ldScores[i]))
            c == RDiv(RMul(hsq, R(Nv[i])), R(M))
            d == RAdd(R(1), RMul(c, l))
        IN  RDiv(R(1), RMul(d, d))]

\* gencov_weights, lines 68-73
GencovWeights(M, ldScores, N1, N2, No, h1, h2, rho_g, rho) ==
    [i \in 1..Len(ldScores) |->
        LET l == R(Fmax1(ldScores[i]))
            a == RAdd(RDiv(RMul(h1, l), R(M)), RDiv(RSub(R(1), h1), R(N1[i])))
            b == RAdd(RDiv(RMul(h2, l), R(M)), RDiv(RSub(R(1), h2), R(N2[i])))
            c == RAdd(RDiv(RMul(rho_g, l), R(M)),
                      RDiv(RMul(R(No[i]), rho), R(N1[i] * N1[i])))
            weights == RAdd(RMul(a, b), RMul(R(2), RMul(c, c)))
        IN  RDiv(R(1), weights)]

MVals == {-1, 0, 1, 2}

HsqVals == {<<0, 1>>, <<1, 2>>, <<1, 1>>}

RhoVals == {<<0, 1>>, <<1, 2>>}

SampleSizes == {1, 2}

\* weights = h2_weights(ldScores, N, M, hsq): no statement of the function raises
h2_weights ==
    /\ pc = "idle"
    /\ \E n \in 1..MaxLen :
       \E ldScores \in Vectors(n, {-1, 0, 2}), Nv \in Vectors(n, SampleSizes),
          M \in MVals, hsq \in HsqVals :
         /\ args' = [ldScores |-> ldScores, N |-> Nv, M |-> M, hsq |-> hsq]
         /\ ret' = H2Weights(ldScores, Nv, M, hsq)
    /\ fn' = "h2_weights"
    /\ pc' = "done"
    /\ UNCHANGED <<err, numer_delete_vals, denom_delete_vals>>
    /\ UNCHANGED jkVars

\* weights = gencov_weights(M, ldScores, N1, N2, No, h1, h2, rho_g, rho): no
\* statement of the function raises
gencov_weights ==
    /\ pc = "idle"
    /\ \E n \in 1..MaxLen :
       \E ldScores \in Vectors(n, {-1, 2}), N1 \in Vectors(n, SampleSizes),
          N2 \in Vectors(n, SampleSizes), M \in MVals,
          rho_g \in RhoVals, rho \in RhoVals :
         LET No == [i \in 1..n |-> 1]
             h1 == <<1, 2>>
             h2 == <<1, 4>>
         IN  /\ args' = [M |-> M, ldScores |-> ldScores, N1 |-> N1, N2 |-> N2,
                         No |-> No, h1 |-> h1, h2 |-> h2, rho_g |-> rho_g, rho |-> rho]
             /\ ret' = GencovWeights(M, ldScores, N1, N2, No, h1, h2, rho_g, rho)
    /\ fn' = "gencov_weights"
    /\ pc' = "done"
    /\ UNCHANGED <<err, numer_delete_vals, denom_delete_vals>>
    /\ UNCHANGED jkVars

NextWeights == h2_weights \/ gencov_weights

SpecWeights == Init /\ [][NextWeights]_vars

\* C6 (as claimed): h2_weights and gencov_weights fail with an invalid-parameter
\* error whenever M <= 0 and return no weights then.
C6_RejectsNonPositiveM ==
    (fn \in {"h2_weights", "gencov_weights"} /\ pc # "idle" /\ args.M <= 0)
        => (pc = "raised" /\ err # "none")

-----------------------------------------------------------------------------
(* Pipeline functions *)

\* np.mean of a sequence of fractions
RMean(seq) == RDiv(RSum(seq), R(Len(seq)))

\* h2g, lines 104-105: the aggregate estimate is computed, then the call of
\* h2_weights evaluates the name `ldscores`, which is bound nowhere (the
\* parameter is `ldScores`), so the function raises NameError on every call
H2g(chisq, ldScores, Nv, M) ==
    LET agg_h2 == RDiv(RSub(RMean([i \in 1..Len(chisq) |-> R(chisq[i])]), R(1)),
                       RMean([i \in 1..Len(Nv) |-> Norm(Nv[i] * ldScores[i], M)]))
    IN  [agg_h2 |-> agg_h2, err |-> "NameError"]

\* gencov, lines 151-153: the aggregate estimate is computed, then the call of
\* gencov_weights evaluates the names `No`, `h1`, `h2`, bound nowhere
Gencov(betahat1, betahat2, ldScores, M) ==
    LET betaprod == [i \in 1..Len(betahat1) |-> betahat1[i] * betahat2[i]]
        agg_gencov == RDiv(RMean([i \in 1..Len(betaprod) |-> R(betaprod[i])]),
                           RMean([i \in 1..Len(ldScores) |-> Norm(ldScores[i], M)]))
    IN  [agg_gencov |-> agg_gencov, err |-> "NameError"]

PipelineM == {0, 1, 2}

\* a constant vector of sample sizes
Const(n, v) == [i \in 1..n |-> v]

\* x = h2g(chisq, ldScores, N, M, block_size)
h2g ==
    /\ pc = "idle"
    /\ \E n \in 1..MaxSnps :
       \E chisq \in Vectors(n, {1, 3}), ldScores \in Vectors(n, {1, 2, 3}),
          nn \in SampleSizes, M \in PipelineM, bs \in {1, 2} :
         LET r == H2g(chisq, ldScores, Const(n, nn), M)
         IN  /\ args' = [chisq |-> chisq, ldScores |-> ldScores, N |-> Const(n, nn),
                         M |-> M, block_size |-> bs]
             /\ ret' = r.agg_h2
             /\ err' = r.err
    /\ fn' = "h2g"
    /\ pc' = "raised"
    /\ UNCHANGED <<numer_delete_vals, denom_delete_vals>>
    /\ UNCHANGED jkVars

\* x = gencov(betahat1, betahat2, ldScores, N1, N2, M, N_overlap, rho, block_size)
gencov ==
    /\ pc = "idle"
    /\ \E n \in 1..MaxSnps :
       \E betahat1 \in Vectors(n, {1, 2}), betahat2 \in Vectors(n, {1, 2}),
          ldScores \in Vectors(n, {1, 2, 3}), M \in PipelineM, bs \in {1, 2} :
         LET r == Gencov(betahat1, betahat2, ldScores, M)
         IN  /\ args' = [betahat1 |-> betahat1, betahat2 |-> betahat2,
                         ldScores |-> ldScores, N1 |-> Const(n, 1), N2 |-> Const(n, 2),
                         M |-> M, block_size |-> bs]
             /\ ret' = r.agg_gencov
             /\ err' = r.err
    /\ fn' = "gencov"
    /\ pc' = "raised"
    /\ UNCHANGED <<numer_delete_vals, denom_delete_vals>>
    /\ UNCHANGED jkVars

\* gencor(betahat1, betahat2, ldScores, N1, N2, M, N_overlap, rho, block_size):
\* line 172 calls h2g(N1*betahat1**2, ldScores, N1, M), whose NameError
\* propagates; lines 173-179 are never reached
gencor ==
    /\ pc = "idle"
    /\ \E n \in 1..MaxSnps :
       \E betahat1 \in Vectors(n, {1, 2}), betahat2 \in Vectors(n, {1, 2}),
          ldScores \in Vectors(n, {1, 2, 3}), M \in PipelineM, bs \in {1, 2} :
         LET N1 == Const(n, 1)
             r  == H2g([i \in 1..n |-> N1[i] * betahat1[i] * betahat1[i]],
                       ldScores, N1, M)
         IN  /\ args' = [betahat1 |-> betahat1, betahat2 |-> betahat2,
                         ldScores |-> ldScores, N1 |-> N1, N2 |-> Const(n, 2),
                         M |-> M, block_size |-> bs]
             /\ ret' = r.agg_h2
             /\ err' = r.err
    /\ fn' = "gencor"
    /\ pc' = "raised"
    /\ UNCHANGED <<numer_delete_vals, denom_delete_vals>>
    /\ UNCHANGED jkVars

NextPipeline == h2g \/ gencov \/ gencor

SpecPipeline == Init /\ [][NextPipeline]_vars

\* the preconditions of C8 and C9 on the arguments of a pipeline call: M > 0,
\* block_size < length/2, and a design that stays non-singular when any one
\* block is left out (the LD Scores left are not all equal)
ValidPipelineArgs ==
    LET n  == Len(args.ldScores)
        bs == args.block_size
        nb == NumBlocks(n, bs)
    IN  /\ args.M > 0
        /\ 2 * bs < n
        /\ \A jj \in 0..(nb - 1) :
             \E a, b \in (1..n) \ ((jj * bs + 1)..((jj + 1) * bs)) :
                 args.ldScores[a] # args.ldScores[b]

\* C8 (as claimed): for valid inputs a call of h2g completes without error and
\* returns the jackknife result.
C8_H2gCompletes ==
    (fn = "h2g" /\ pc # "idle" /\ ValidPipelineArgs) => (pc # "raised" /\ err = "none")

\* C9 (as claimed): for valid inputs a call of gencor completes without error
\* and returns (h2_1, h2_2, covariance, correlation).
C9_GencorCompletes ==
    (fn = "gencor" /\ pc # "idle" /\ ValidPipelineArgs) => (pc # "raised" /\ err = "none")

-----------------------------------------------------------------------------
(* RatioJackknife *)

EstVals == {<<1, 2>>, <<2, 1>>}

NumerVals == {-1, 0, 2}

DenomVals == {-1, 1, 3}

\* RatioJackknife.__init__, lines 454-465: promote, compare shapes, set fields
RatioJackknife_init ==
    /\ pc = "idle"
    /\ \E n \in 1..MaxBlocks, m \in 1..MaxBlocks, e \in EstVals :
         /\ m \in {n, n + 1}
         /\ \E nv \in Vectors(n, NumerVals), dv \in Vectors(m, DenomVals) :
            \E na \in AsArrays(nv), da \in AsArrays(dv) :
              na.ndim = da.ndim /\
              LET numer == IF Len(Shape(na)) <= 1 THEN AsColumn(na) ELSE na
                  denom == IF Len(Shape(da)) <= 1 THEN AsColumn(da) ELSE da
              IN  /\ args' = [est |-> e, numer_delete_vals |-> na,
                              denom_delete_vals |-> da]
                  /\ IF Shape(numer) # Shape(denom)
                     THEN /\ pc' = "raised" /\ err' = "ValueError_shape"
                          /\ UNCHANGED <<est, numer_delete_vals, denom_delete_vals,
                                         num_blocks, output_dim>>
                     ELSE /\ est' = <<e>>
                          /\ numer_delete_vals' = numer
                          /\ denom_delete_vals' = denom
                          /\ num_blocks' = Shape(numer)[1]
                          /\ output_dim' = Shape(numer)[2]
                          /\ pc' = "delete_vals_to_pseudovals" /\ err' = err
    /\ fn' = "RatioJackknife"
    /\ UNCHANGED <<x, y, block_size, N, s, xty_block_vals, xtx_block_vals, j,
                   pseudovalues, delete_values, jknife_est, jknife_var, ret>>

\* faulty variant: the division is applied to the whole difference
RatioPseudovalue_Precedence(nb, e, numer_j, denom_j) ==
    [c \in 1..Len(numer_j) |->
        RDiv(RSub(RMul(R(nb), e[c]), RMul(R(nb - 1), R(numer_j[c]))), R(denom_j[c]))]

\* line 472: self.num_blocks*est - (self.num_blocks-1)*numer[j,...]/denom[j,...]
RatioPseudovalue(nb, e, numer_j, denom_j) ==
    [c \in 1..Len(numer_j) |->
        RSub(RMul(R(nb), e[c]), RDiv(RMul(R(nb - 1), R(numer_j[c])), R(denom_j[c])))]

\* __delete_vals_to_pseudovals__(est, denom, numer), lines 470-474
DeleteValsToPseudovals(nb, e, denom, numer) ==
    [jj \in 1..nb |-> RatioPseudovalue(nb, e, numer.v[jj], denom.v[jj])]

\* line 466
RatioJackknife_pseudovals ==
    /\ pc = "delete_vals_to_pseudovals"
    /\ pseudovalues' =
          DeleteValsToPseudovals(num_blocks, est, denom_delete_vals, numer_delete_vals)
    /\ pc' = "jknife"
    /\ UNCHANGED <<fn, err, args, x, y, block_size, N, output_dim, num_blocks, s,
                   xty_block_vals, xtx_block_vals, est, j, delete_values,
                   jknife_est, jknife_var, ret, numer_delete_vals, denom_delete_vals>>

NextRatio == RatioJackknife_init \/ RatioJackknife_pseudovals \/ Jknife

SpecRatio == Init /\ [][NextRatio]_vars

\* constants by which the rows of numerator and denominator are scaled
Scales == {-1, 3}

\* row i of a one-column integer matrix multiplied by c[i]
ScaleRows(a, c) == Arr2([i \in 1..Len(a.v) |-> <<a.v[i][1] * c[i]>>])

\* C10: scaling row j of the numerator and of the denominator delete-values by
\* the same nonzero constant c_j leaves every pseudovalue, and with them the
\* jackknife mean and variance, unchanged; pseudovalue_j is
\* num_blocks*est - (num_blocks-1)*(numerator_j / denominator_j).
C10_ScaleInvariance ==
    (fn = "RatioJackknife" /\ pc \in {"jknife", "done"})
        => /\ \A c \in [1..num_blocks -> Scales] :
                LET pv == DeleteValsToPseudovals(num_blocks, est,
                              ScaleRows(denom_delete_vals, c),
                              ScaleRows(numer_delete_vals, c))
                IN  /\ pv = pseudovalues
                    /\ pc = "done" =>
                         /\ JknifeEst(pv, num_blocks, output_dim) = jknife_est
                         /\ JknifeVar(pv, num_blocks, output_dim) = jknife_var
           /\ \A jj \in 1..num_blocks :
                pseudovalues[jj][1] =
                    RSub(RMul(R(num_blocks), est[1]),
                         RMul(R(num_blocks - 1),
                              Norm(numer_delete_vals.v[jj][1], denom_delete_vals.v[jj][1])))

\* C10 happens: a ratio jackknife on at least two blocks returned, with a
\* pseudovalue that is not an integer and a positive variance
C10_Witness ==
    /\ fn = "RatioJackknife" /\ pc = "done" /\ num_blocks >= 2
    /\ pseudovalues[1][1][2] > 1
    /\ jknife_var[1][1] > 0

-----------------------------------------------------------------------------
(* Properties of the least-squares jackknife *)

\* a LstsqJackknife construction is running or has ended
InJackknife == fn \in {"LstsqJackknife", "ldscore_reg"} /\ pc \notin {"idle", "init"}

\* the construction ended: an object was returned, or an exception left it
Ended == pc \in {"done", "raised"}

\* the inputs passed the validation of lines 359-369
PassedValidation ==
    /\ InJackknife
    /\ err \notin {"ValueError_rows", "ValueError_block_size",
                   "ValueError_num_blocks", "ValueError_y_shape"}

\* __compute_block_vals__ has returned
BlocksComputed ==
    /\ PassedValidation
    /\ pc # "compute_block_vals"

\* the rows of a row list with rows lo+1 .. hi taken out
RowsWithout(rows, lo, hi) ==
    [i \in 1..(Len(rows) - (hi - lo)) |-> IF i <= lo THEN rows[i] ELSE rows[i + (hi - lo)]]

\* first row (0-based) and end (exclusive) of block jj of the partition
BlockLo(jj) == jj * block_size

BlockHi(jj) == IF (jj + 1) * block_size < N THEN (jj + 1) * block_size ELSE N

\* ordinary least squares on the data with the rows of block jj removed
Refit(jj) ==
    LET xr == RowsWithout(x.v, BlockLo(jj), BlockHi(jj))
        yr == RowsWithout(y.v, BlockLo(jj), BlockHi(jj))
    IN  DotInvT(Inv(DotT(xr, xr, output_dim, output_dim)), DotT(xr, yr, output_dim, 1))

\* C1 (as claimed): every block_size >= N/2, the boundary block_size = N/2
\* included, is rejected with the block-size error; only block_size < N/2 is
\* accepted.
C1_RejectsHalfAndAbove ==
    (InJackknife /\ err # "ValueError_rows" /\ 2 * block_size >= N)
        => (pc = "raised" /\ err = "ValueError_block_size")

\* C2: every delete-value computed from the accumulated block statistics equals
\* the least-squares coefficient refitted on the data with that block's rows
\* removed.
C2_DeleteValueIsRefit ==
    (InJackknife /\ pc \in {"block_vals_to_pseudovals", "jknife", "done"})
        => \A jj \in 0..(j - 1) : delete_values[jj + 1] = Refit(jj)

\* C2 happens: a two-parameter regression on at least three blocks completed
\* with a delete-value that is not an integer
C2_Witness ==
    /\ InJackknife /\ pc = "done" /\ output_dim = 2 /\ num_blocks >= 3
    /\ \E jj \in 1..num_blocks : delete_values[jj][1][2] > 1

\* C3: once the partition loop has finished, the per-block cross-products sum
\* to the cross-products of all N rows, for x'x and for x'y.
C3_BlockSumsAreTotals ==
    BlocksComputed
        => /\ MatSum(xtx_block_vals) = DotT(x.v, x.v, output_dim, output_dim)
           /\ MatSum(xty_block_vals) = DotT(x.v, y.v, output_dim, 1)

\* C3 happens: a construction with a short final block ran to its end
C3_Witness ==
    /\ InJackknife /\ pc = "done" /\ num_blocks >= 3
    /\ N % block_size # 0
    /\ DotT(x.v, y.v, output_dim, 1)[1][1] > 0

IsExample ==
    /\ fn = "LstsqJackknife"
    /\ args.x = ExampleX /\ args.y = ExampleY /\ args.block_size = 2

\* C4: the end-to-end example (six rows, x all ones, y all 2, block_size 2)
\* never raises, and its result has 3 blocks, estimate 2, every delete-value 2,
\* every pseudovalue 2 and jackknife variance 0.
C4_Example ==
    IsExample
        => /\ pc # "raised"
           /\ pc = "done"
                => /\ num_blocks = 3
                   /\ est = <<R(2)>>
                   /\ delete_values = <<est, est, est>>
                   /\ pseudovalues = <<est, est, est>>
                   /\ jknife_var = <<R(0)>>

\* C4 happens: the example's construction returned
C4_Witness == IsExample /\ pc = "done"

\* C5: if some block's deleted cross-product matrix is not invertible, the
\* construction ends in the singular-matrix error and returns no object.
C5_SingularPropagates ==
    (PassedValidation /\ Ended
       /\ \E jj \in 0..(num_blocks - 1) : Det(DeleteXtx(xtx_block_vals, jj)) = 0)
        => (pc = "raised" /\ err = "LinAlgError")

\* C5 happens: the loop filled some rows and then met a singular deleted system
C5_Witness ==
    /\ InJackknife /\ pc = "raised" /\ err = "LinAlgError" /\ j >= 1
    /\ Det(DeleteXtx(xtx_block_vals, j)) = 0

\* C7 (as claimed): ldscore_reg accepts the response exactly when its shape is
\* (M,) or (M,1), and raises the shape error otherwise.
C7_AcceptsColumnResponse ==
    (fn = "ldscore_reg" /\ pc # "idle")
        => LET shp == Shape(args.y)
               oneDim == Len(shp) = 1 \/ (Len(shp) = 2 /\ shp[2] = 1)
           IN  (err = "ValueError_y_shape") <=> ~oneDim

-----------------------------------------------------------------------------
(* autocov *)

\* np.mean(self.pseudovalues): no axis is given, so the mean runs over every
\* entry of the matrix, all output dimensions together
GrandMean(pv) ==
    LET cols == Len(pv[1])
        flat == [i \in 1..(Len(pv) * cols) |->
                    pv[((i - 1) \div cols) + 1][((i - 1) % cols) + 1]]
    IN  RMean(flat)

\* line 421: lag <= 0 or lag >= self.num_blocks
LagRejected(lag, nb) == lag <= 0 \/ lag >= nb

\* autocov, lines 420-428, for an accepted lag
Autocov(pv, nb, lag) ==
    LET mu == GrandMean(pv)
        pseudoerrors == [r \in 1..Len(pv) |-> [c \in 1..Len(pv[r]) |-> RSub(pv[r][c], mu)]]
        v == Slice(pseudoerrors, lag, Len(pseudoerrors))
        w == Slice(pseudoerrors, 0, Len(pseudoerrors) - lag)
    IN  [d \in 1..Len(pv[1]) |->
            RDiv(RSum([r \in 1..Len(v) |-> RMul(v[r][d], w[r][d])]), R(nb - lag))]

Lags == -1..MaxN

\* self.autocov(lag) on a constructed jackknife
autocov ==
    /\ pc = "done"
    /\ \E lag \in Lags :
         IF LagRejected(lag, num_blocks)
         THEN /\ pc' = "autocov_raised" /\ err' = "ValueError_lag"
              /\ ret' = [lag |-> lag, autocov |-> <<>>]
         ELSE /\ pc' = "autocov_returned" /\ err' = err
              /\ ret' = [lag |-> lag, autocov |-> Autocov(pseudovalues, num_blocks, lag)]
    /\ UNCHANGED <<fn, args, numer_delete_vals, denom_delete_vals>>
    /\ UNCHANGED jkVars

NextDiag == Next \/ autocov

\* the least-squares jackknife with its autocovariance diagnostic
SpecDiag == Init /\ [][NextDiag]_vars

\* pseudoerror of block r in dimension d as the class documents it (lines
\* 280-283): the pseudovalue minus the jackknife estimate of that dimension
Pseudoerror(r, d) == RSub(pseudovalues[r][d], jknife_est[d])

\* C11 (as claimed): autocov(lag) fails if lag <= 0 or lag >= num_blocks; for
\* 1 <= lag <= num_blocks-1 it returns, per output dimension d,
\* (1/(num_blocks-lag)) * sum_j e[j+lag,d]*e[j,d] with e the pseudoerrors
\* centred on the jackknife estimate of dimension d.
C11_AutocovPerDimension ==
    /\ pc = "autocov_raised" => (ret.lag <= 0 \/ ret.lag >= num_blocks)
    /\ pc = "autocov_returned" =>
         /\ 1 <= ret.lag /\ ret.lag <= num_blocks - 1
         /\ \A d \in 1..output_dim :
              ret.autocov[d] =
                  RDiv(RSum([r \in 1..(num_blocks - ret.lag) |->
                                RMul(Pseudoerror(r + ret.lag, d), Pseudoerror(r, d))]),
                       R(num_blocks - ret.lag))

-----------------------------------------------------------------------------
(* Block partition *)

\* rows of block jj (0-based) of a row list, by the partition's definition
BlockRows(rows, jj) == Slice(rows, BlockLo(jj), BlockHi(jj))

\* C12: for every accepted N and block_size >= 1 the partition loop produces
\* exactly num_blocks = ceil(N/block_size) contiguous blocks, each of
\* block_size rows except a possibly shorter last one, with
\* 1 <= num_blocks <= N; the result has exactly num_blocks rows of
\* pseudovalues and of delete-values, each filled from its own block.
C12_Partition ==
    (PassedValidation /\ pc # "raised") =>
        /\ block_size >= 1
        /\ (num_blocks - 1) * block_size < N /\ N <= num_blocks * block_size
        /\ 1 <= num_blocks /\ num_blocks <= N
        /\ Len(xtx_block_vals) = Len(xty_block_vals)
        /\ pc = "compute_block_vals" =>
              /\ s = Len(xtx_block_vals) * block_size
              /\ s < N
        /\ pc # "compute_block_vals" => Len(xtx_block_vals) = num_blocks
        /\ \A k \in 1..Len(xtx_block_vals) :
              /\ xtx_block_vals[k] =
                    DotT(BlockRows(x.v, k - 1), BlockRows(x.v, k - 1), output_dim, output_dim)
              /\ xty_block_vals[k] =
                    DotT(BlockRows(x.v, k - 1), BlockRows(y.v, k - 1), output_dim, 1)
              /\ Len(BlockRows(x.v, k - 1)) =
                    IF k < num_blocks THEN block_size ELSE N - (num_blocks - 1) * block_size
        /\ pc \in {"jknife", "done"} =>
              /\ Len(pseudovalues) = num_blocks
              /\ Len(delete_values) = num_blocks
              /\ \A k \in 1..num_blocks :
                    LET bx == BlockRows(x.v, k - 1)
                        by == BlockRows(y.v, k - 1)
                        dxtx == MatSub(DotT(x.v, x.v, output_dim, output_dim),
                                       DotT(bx, bx, output_dim, output_dim))
                        dxty == MatSub(DotT(x.v, y.v, output_dim, 1),
                                       DotT(bx, by, output_dim, 1))
                    IN  /\ delete_values[k] = DotInvT(Inv(dxtx), dxty)
                        /\ \A c \in 1..output_dim :
                              pseudovalues[k][c] =
                                  RSub(RMul(R(num_blocks), est[c]),
                                       RMul(R(num_blocks - 1), delete_values[k][c]))

\* C12 happens: a construction whose last block is shorter than block_size
\* returned three rows of pseudovalues that are not all the same
C12_Witness ==
    /\ InJackknife /\ pc = "done"
    /\ N > (num_blocks - 1) * block_size /\ N < num_blocks * block_size
    /\ Len(pseudovalues) = 3 /\ Len(delete_values) = 3
    /\ pseudovalues[1] # pseudovalues[3]

====
